---- MODULE Spec2Model ----
(***************************************************************************)
(* apiserv: the per-request Context (ctx.go), the response variants and    *)
(* their WriteToCtx (resp.go), and handlerChain.Serve (ctx.go).            *)
(*                                                                         *)
(* One behaviour of Spec is one request served by one handlerChain.  The   *)
(* underlying http.ResponseWriter is modelled as the log of the calls the  *)
(* Context forwards to it: rw.hdr (WriteHeader statuses), rw.body (Write   *)
(* payloads) and rw.header (the header map entries SetContentType sets).   *)
(* Byte strings are records [kind, ...], so that the output of an encoder   *)
(* is distinguishable from the value it encodes.                           *)
(*                                                                         *)
(* SpecIO is Spec on a connection whose writes may fail.  SpecErr and      *)
(* SpecBind apply NewJSONErrorResponse and Context.BindJSON, which do not   *)
(* touch the response stream, to every argument of a bounded set.          *)
(***************************************************************************)
EXTENDS Integers, Sequences, FiniteSets, TLC

VARIABLES
  req,     \* the *http.Request of Serve: [method]
  n,       \* len(hh): the number of handlers of the chain
  i,       \* the position of the range loop of Serve: next handler to call
  pc,      \* "loop" while Serve is in its loop, "returned" after it
  ctx,     \* the Context Serve constructed
  trace,   \* one record per handler invocation, in order (history)
  arg,     \* the arguments of a routine called on its own (SpecErr, SpecBind)
  out      \* what that routine returned, Nil before the call

vars == <<req, n, i, pc, ctx, trace, arg, out>>

(***************************** bounds **************************************)
\* longest handler chain explored
MaxChain == 2

(*************************** constants *************************************)
StatusOK == 200
StatusNoContent == 204
StatusMultipleChoices == 300
StatusBadRequest == 400
StatusMovedPermanently == 301
StatusFound == 302
StatusTemporaryRedirect == 307
StatusPermanentRedirect == 308
\* the threshold of the hijack in Context.WriteHeader / Context.Write
HijackMinStatus == 300

MimeJSON == "application/json; charset=utf-8"
MimeJavascript == "application/javascript; charset=utf-8"
MimePlain == "text/plain; charset=utf-8"

\* a byte string / string with plain content
Str(s) == [kind |-> "raw", text |-> s]
\* the nil interface value (Data, simpleResp.v) and the nil error
Nil == [kind |-> "nil"]
NoErr == "nil"
ErrDir == "file is a directory"
ErrOpen == "open: no such file or directory"
ErrInvalidURL == "invalid url"
\* the error of a failed ResponseWriter.Write
ErrWrite == "write: broken pipe"

\* http.StatusText for the codes the model uses
StatusText(code) ==
  CASE code = 200 -> Str("OK")
    [] code = 204 -> Str("No Content")
    [] code = 304 -> Str("Not Modified")
    [] code = 400 -> Str("Bad Request")
    [] code = 404 -> Str("Not Found")
    [] code = 416 -> Str("Requested Range Not Satisfiable")
    [] code = 500 -> Str("Internal Server Error")
    [] OTHER -> Str("")

(************************** the Context ************************************)
\* &Context{Params: p, Req: req, ResponseWriter: rw}: zero done/status/hijack
NewContext ==
  [done |-> FALSE, status |-> 0, hijackServeContent |-> FALSE,
   rw |-> [hdr |-> <<>>, body |-> <<>>, header |-> [ct |-> "", nosniff |-> FALSE],
           broken |-> FALSE, failed |-> 0]]

\* ctx.ResponseWriter.WriteHeader(s): the status reaches the stream
RW_WriteHeader(c, s) == [c EXCEPT !.rw.hdr = Append(@, s)]
\* ctx.ResponseWriter.Write(p): the bytes reach the stream, or the write
\* fails (rw.broken: the connection is gone) and rw.failed counts the attempt
RW_Write(c, p) ==
  IF c.rw.broken THEN [c EXCEPT !.rw.failed = @ + 1]
  ELSE [c EXCEPT !.rw.body = Append(@, p)]

SetContentType(c, typ) ==
  IF typ = "" THEN c
  ELSE [c EXCEPT !.rw.header = [ct |-> typ, nosniff |-> TRUE]]

\* json encoding of a JSONResponse: errors and data are omitempty,
\* Indent and Callback are json:"-"
JSONObject(r) ==
  ("code" :> r.Code) @@ ("success" :> r.Success)
    @@ (IF r.Errors # <<>> THEN ("errors" :> r.Errors) ELSE <<>>)
    @@ (IF r.Data # Nil THEN ("data" :> r.Data) ELSE <<>>)

jsonEncode(indent, r) == [kind |-> "json", indent |-> indent, obj |-> JSONObject(r)]

\* Error{Message: v}
ErrorMsg(v) == [Message |-> v, Field |-> "", IsMissing |-> FALSE]

\* the dynamic types appendErr's type switch accepts
AcceptedTypes == {"Error", "*Error", "string", "[]byte", "*JSONResponse", "error", "MultiError"}

\* MultiError is not among the sources at hand.  It is an ordered sequence of
\* errors that is used as an error type of its own (Err() hands it out as an
\* error, with a combined description), so it satisfies the error interface.
MultiErrorIsError == TRUE

\* the dynamic types that satisfy the error interface: *Error has the
\* Error() method, Error (the value) has not
ImplementsError(t) ==
  t \in {"*Error", "error"} \/ (t = "MultiError" /\ MultiErrorIsError)

\* v.Error() of an error value that is not an *Error
ErrorString(err) ==
  IF err.t = "MultiError" THEN [kind |-> "combined", errs |-> err.errs] ELSE err.v

\* the cases of appendErr's type switch before "case error", which takes
\* the first case that matches
EarlierCases == {"Error", "*Error", "string", "[]byte", "*JSONResponse"}

\* faulty variant: the default case ignores the value instead of panicking
Unsupported_Ignored(err) == FALSE

\* whether appendErr reaches its default case (log.Panicf) on err
RECURSIVE Unsupported(_)
Unsupported(err) ==
  IF err.t \in EarlierCases \/ ImplementsError(err.t) THEN FALSE
  ELSE IF err.t = "MultiError"
       THEN \E k \in DOMAIN err.errs : Unsupported(err.errs[k])
       ELSE TRUE

RECURSIVE appendErr(_, _)
appendErr(errors, err) ==
  IF err.t = "Error" THEN Append(errors, err.v)
  ELSE IF err.t = "*Error" THEN Append(errors, err.v)
  ELSE IF err.t = "string" THEN Append(errors, ErrorMsg(err.v))
  ELSE IF err.t = "[]byte" THEN Append(errors, ErrorMsg(err.v))
  ELSE IF err.t = "*JSONResponse" THEN errors \o err.v.Errors
  ELSE IF ImplementsError(err.t) THEN Append(errors, ErrorMsg(ErrorString(err)))
  ELSE IF err.t = "MultiError"
       THEN IF err.errs = <<>> THEN errors
            ELSE appendErr(appendErr(errors, Head(err.errs)),
                           [t |-> "MultiError", errs |-> Tail(err.errs)])
  ELSE errors

RECURSIVE appendAll(_, _)
appendAll(errors, errs) ==
  IF errs = <<>> THEN errors
  ELSE appendAll(appendErr(errors, Head(errs)), Tail(errs))

\* the outcome of a call that panicked instead of returning
Panic == [type |-> "panic"]

NewJSONErrorResponse(code, errs) ==
  LET es == IF errs = <<>> THEN <<[t |-> "string", v |-> StatusText(code)]>> ELSE errs
  IN IF \E k \in DOMAIN es : Unsupported(es[k])
     THEN Panic
     ELSE [type |-> "JSONResponse", Code |-> code, Success |-> FALSE,
           Errors |-> appendAll(<<>>, es), Data |-> Nil, Indent |-> FALSE]

\* Context.Write calls NewErrorResponse, which is not among the sources at
\* hand; resp.go's constructor of the structured error response is
\* NewJSONErrorResponse
NewErrorResponse(code, errs) == NewJSONErrorResponse(code, errs)

RECURSIVE Write(_, _)

\* faulty variant: WriteHeader without the hijack test
WriteHeader_NoHijack(c, s) == RW_WriteHeader([c EXCEPT !.status = s], s)

\* Context.WriteHeader
WriteHeader(c, s) ==
  LET c1 == [c EXCEPT !.status = s]
  IN IF c1.hijackServeContent /\ c1.status >= HijackMinStatus
     THEN c1
     ELSE RW_WriteHeader(c1, s)

\* the error Context.Write returns: nil from the hijacked branch, else the
\* error of ResponseWriter.Write
WriteErr(c) ==
  IF c.hijackServeContent /\ c.status >= HijackMinStatus THEN NoErr
  ELSE IF c.rw.broken THEN ErrWrite ELSE NoErr

\* the error Context.JSON returns: that of the Encode, which is that of the
\* one Write the encoder makes
JSONErr(c, code) ==
  LET c1 == [c EXCEPT !.done = TRUE]
  IN WriteErr(IF code > 0 THEN WriteHeader(c1, code) ELSE c1)

\* Context.JSON: marks done, content type, header if code > 0, one Encode
JSON(c, code, indent, v) ==
  LET c1 == SetContentType([c EXCEPT !.done = TRUE], MimeJSON)
      c2 == IF code > 0 THEN WriteHeader(c1, code) ELSE c1
  IN Write(c2, jsonEncode(indent, v))

\* faulty variant: an unset Code defaults to 200 whether or not there are errors
JSONResponse_WriteToCtx_Default200(r, c) ==
  LET r1 == IF r.Code = 0 THEN [r EXCEPT !.Code = StatusOK] ELSE r
      r2 == [r1 EXCEPT !.Success = (r1.Code >= StatusOK /\ r1.Code < StatusMultipleChoices)]
  IN IF r.Code = StatusNoContent
     THEN [ctx |-> WriteHeader(c, StatusNoContent), r |-> r, err |-> NoErr]
     ELSE [ctx |-> JSON(c, r2.Code, r2.Indent, r2), r |-> r2, err |-> JSONErr(c, r2.Code)]

\* faulty variant: no special case for Code 204, the body is encoded as usual
JSONResponse_WriteToCtx_No204(r, c) ==
  LET r1 == IF r.Code = 0
            THEN [r EXCEPT !.Code = IF Len(r.Errors) > 0 THEN StatusBadRequest
                                                          ELSE StatusOK]
            ELSE r
      r2 == [r1 EXCEPT !.Success = (r1.Code >= StatusOK /\ r1.Code < StatusMultipleChoices)]
  IN [ctx |-> JSON(c, r2.Code, r2.Indent, r2), r |-> r2, err |-> JSONErr(c, r2.Code)]

\* JSONResponse.WriteToCtx: the Context, the response and the error after it
JSONResponse_WriteToCtx(r, c) ==
  LET r1 == IF r.Code = 0
            THEN [r EXCEPT !.Code = IF Len(r.Errors) > 0 THEN StatusBadRequest
                                                          ELSE StatusOK]
            ELSE r
      r2 == [r1 EXCEPT !.Success = (r1.Code >= StatusOK /\ r1.Code < StatusMultipleChoices)]
  IN IF r.Code = StatusNoContent
     THEN [ctx |-> WriteHeader(c, StatusNoContent), r |-> r, err |-> NoErr]
     ELSE [ctx |-> JSON(c, r2.Code, r2.Indent, r2), r |-> r2, err |-> JSONErr(c, r2.Code)]

\* faulty variant: Write forwards without marking the Context done
Write_NoDone(c, p) ==
  IF c.hijackServeContent /\ c.status >= HijackMinStatus
  THEN JSONResponse_WriteToCtx(NewErrorResponse(c.status, <<[t |-> "[]byte", v |-> p]>>),
                               [c EXCEPT !.hijackServeContent = FALSE]).ctx
  ELSE RW_Write(c, p)

\* faulty variant: the hijacked Write falls through and forwards p as well
Write_FallsThrough(c, p) ==
  LET c1 == IF c.hijackServeContent /\ c.status >= HijackMinStatus
            THEN JSONResponse_WriteToCtx(
                   NewErrorResponse(c.status, <<[t |-> "[]byte", v |-> p]>>),
                   [c EXCEPT !.hijackServeContent = FALSE]).ctx
            ELSE c
  IN RW_Write([c1 EXCEPT !.done = TRUE], p)

\* Context.Write
Write(c, p) ==
  IF c.hijackServeContent /\ c.status >= HijackMinStatus
  THEN JSONResponse_WriteToCtx(NewErrorResponse(c.status, <<[t |-> "[]byte", v |-> p]>>),
                               [c EXCEPT !.hijackServeContent = FALSE]).ctx
  ELSE RW_Write([c EXCEPT !.done = TRUE], p)

\* Context.JSONP is called by JSONPResponse.WriteToCtx and is not among the
\* sources at hand: like Context.JSON, with the javascript content type and the JSON object
\* wrapped in a call of the callback
JSONP(c, code, callback, v) ==
  LET c1 == SetContentType([c EXCEPT !.done = TRUE], MimeJavascript)
      c2 == IF code > 0 THEN WriteHeader(c1, code) ELSE c1
  IN Write(c2, [kind |-> "jsonp", callback |-> callback, obj |-> JSONObject(v)])

\* the error Context.JSONP returns, like that of Context.JSON
JSONPErr(c, code) == JSONErr(c, code)

\* Context.Printf: marks done, content type (default plain), header if
\* code > 0, one Fprintf
Printf(c, code, contentType, s) ==
  LET ct == IF contentType = "" THEN MimePlain ELSE contentType
      c1 == SetContentType([c EXCEPT !.done = TRUE], ct)
      c2 == IF code > 0 THEN WriteHeader(c1, code) ELSE c1
  IN Write(c2, s)

\* the error Context.Printf returns: that of its Fprintf
PrintfErr(c, code) ==
  LET c1 == [c EXCEPT !.done = TRUE]
  IN WriteErr(IF code > 0 THEN WriteHeader(c1, code) ELSE c1)

\* net/http's Redirect on the Context: one WriteHeader(code), and for a GET
\* request one Write of the short html note
http_Redirect(c, r, url, code) ==
  LET c1 == WriteHeader(c, code)
  IN IF r.method = "GET" THEN Write(c1, [kind |-> "note", url |-> url]) ELSE c1

\* Context.Redirect
Context_Redirect(c, r, url, perm) ==
  http_Redirect(c, r, url, IF perm THEN StatusPermanentRedirect ELSE StatusTemporaryRedirect)

\* net/http's ServeContent on the Context: the calls it makes on its
\* ResponseWriter, in order.  Which calls it makes depends on the request
\* and the file, so a serve is any one of ServeScripts.
H(s) == [call |-> "WriteHeader", s |-> s]
W(p) == [call |-> "Write", p |-> p]

ServeScripts ==
  { <<H(200), W(Str("file content"))>>,              \* the file
    <<H(200)>>,                                       \* HEAD, or an empty file
    <<H(304)>>,                                       \* conditional GET: not modified
    <<H(416), W(Str("invalid range"))>> }             \* http.Error

RECURSIVE http_ServeContent(_, _)
http_ServeContent(c, script) ==
  IF script = <<>> THEN c
  ELSE LET k == Head(script)
           c1 == IF k.call = "WriteHeader" THEN WriteHeader(c, k.s) ELSE Write(c, k.p)
       IN http_ServeContent(c1, Tail(script))

\* what os.Open / Stat find at a path
FileSystem(fp) ==
  CASE fp = "/file" -> "file"
    [] fp = "/dir" -> "dir"
    [] OTHER -> "missing"

Paths == {"/file", "/dir", "/missing"}

\* faulty variant: the hijack is armed before the path is opened and looked at
Context_File_ArmsFirst(c, fp, script) ==
  LET c1 == [c EXCEPT !.hijackServeContent = TRUE]
  IN IF FileSystem(fp) = "missing" THEN [ctx |-> c1, err |-> ErrOpen]
     ELSE IF FileSystem(fp) = "dir" THEN [ctx |-> c1, err |-> ErrDir]
     ELSE [ctx |-> http_ServeContent(c1, script), err |-> NoErr]

\* Context.File: the Context and the error after it
Context_File(c, fp, script) ==
  IF FileSystem(fp) = "missing" THEN [ctx |-> c, err |-> ErrOpen]
  ELSE IF FileSystem(fp) = "dir" THEN [ctx |-> c, err |-> ErrDir]
  ELSE [ctx |-> http_ServeContent([c EXCEPT !.hijackServeContent = TRUE], script),
        err |-> NoErr]

(************************* response variants *******************************)
\* faulty variant: the logical code is sent as the transport status
JSONPResponse_WriteToCtx_LogicalStatus(r, c) ==
  LET r1 == IF r.Code = 0 THEN [r EXCEPT !.Code = StatusOK] ELSE r
      r2 == [r1 EXCEPT !.Success = (r1.Code >= StatusOK /\ r1.Code < StatusMultipleChoices)]
  IN IF r.Code = StatusNoContent
     THEN [ctx |-> WriteHeader(c, StatusNoContent), r |-> r, err |-> NoErr]
     ELSE [ctx |-> JSONP(c, r2.Code, r2.Callback, r2), r |-> r2, err |-> JSONPErr(c, r2.Code)]

\* JSONPResponse.WriteToCtx
JSONPResponse_WriteToCtx(r, c) ==
  LET r1 == IF r.Code = 0 THEN [r EXCEPT !.Code = StatusOK] ELSE r
      r2 == [r1 EXCEPT !.Success = (r1.Code >= StatusOK /\ r1.Code < StatusMultipleChoices)]
  IN IF r.Code = StatusNoContent
     THEN [ctx |-> WriteHeader(c, StatusNoContent), r |-> r, err |-> NoErr]
     ELSE [ctx |-> JSONP(c, StatusOK, r2.Callback, r2), r |-> r2, err |-> JSONPErr(c, StatusOK)]

\* RedirectWithCode: a redirect response with the given status code
RedirectWithCode(url, code) == [type |-> "redirResp", url |-> url, code |-> code]

\* Redirect: 302, or 301 if perm
Redirect(url, perm) ==
  RedirectWithCode(url, IF perm THEN StatusMovedPermanently ELSE StatusFound)

\* redirResp.WriteToCtx
redirResp_WriteToCtx(r, c, rq) ==
  IF r.url = "" THEN [ctx |-> c, r |-> r, err |-> ErrInvalidURL]
  ELSE [ctx |-> http_Redirect(c, rq, r.url, r.code), r |-> r, err |-> NoErr]

\* fileResp.WriteToCtx
fileResp_WriteToCtx(r, c, script) ==
  LET c1 == IF r.ct # "" THEN SetContentType(c, r.ct) ELSE c
      f == Context_File(c1, r.fp, script)
  IN [ctx |-> f.ctx, r |-> r, err |-> f.err]

\* simpleResp.WriteToCtx: v is nil or a byte string here
simpleResp_WriteToCtx(r, c) ==
  LET c1 == IF r.ct # "" THEN SetContentType(c, r.ct) ELSE c
      c2 == IF r.code > 0 THEN WriteHeader(c1, r.code) ELSE c1
  IN [ctx |-> IF r.v = Nil THEN c2 ELSE Write(c2, r.v), r |-> r,
      err |-> IF r.v = Nil THEN NoErr ELSE WriteErr(c2)]

\* Response.WriteToCtx: dynamic dispatch on the response's type
WriteToCtx(r, c, rq, script) ==
  CASE r.type = "JSONResponse" -> JSONResponse_WriteToCtx(r, c)
    [] r.type = "JSONPResponse" -> JSONPResponse_WriteToCtx(r, c)
    [] r.type = "redirResp" -> redirResp_WriteToCtx(r, c, rq)
    [] r.type = "fileResp" -> fileResp_WriteToCtx(r, c, script)
    [] r.type = "simpleResp" -> simpleResp_WriteToCtx(r, c)

\* the Break sentinel: one &simpleResp{} (resp.go; &Response{Code: -1} in
\* ctx.go), told from every other response by its address
Break == [type |-> "simpleResp", ct |-> "", v |-> Nil, code |-> 0, ptr |-> "Break"]

\* a handler returning nil
NilResp == [type |-> "nil"]

(***************************** handlers ************************************)
\* A Handler is user code: the model draws what it does from the Context
\* output operations (at most one per handler) and from the responses it
\* may return.
Codes == {0, 200, 204, 404}

HandlerOps ==
  {[op |-> "none"]}
    \cup {[op |-> "WriteHeader", s |-> s] : s \in {201, 404}}
    \cup {[op |-> "Write", p |-> Str("hi")]}
    \cup {[op |-> "JSON", code |-> c] : c \in {0, 200, 404}}
    \cup {[op |-> "Printf", code |-> c] : c \in {0, 200}}
    \cup {[op |-> "Redirect", perm |-> b] : b \in BOOLEAN}
    \cup {[op |-> "File", fp |-> fp, script |-> <<>>] : fp \in {"/dir", "/missing"}}
    \cup {[op |-> "File", fp |-> "/file", script |-> sc] : sc \in ServeScripts}

\* the effect of the handler's own output operation on the Context
RunOp(c, rq, o) ==
  CASE o.op = "none" -> c
    [] o.op = "WriteHeader" -> WriteHeader(c, o.s)
    [] o.op = "Write" -> Write(c, o.p)
    [] o.op = "JSON" -> JSON(c, o.code, FALSE, [Code |-> o.code, Success |-> TRUE,
                                                 Errors |-> <<>>, Data |-> Str("v")])
    [] o.op = "Printf" -> Printf(c, o.code, "", Str("text"))
    [] o.op = "Redirect" -> Context_Redirect(c, rq, "/x", o.perm)
    [] o.op = "File" -> Context_File(c, o.fp, o.script).ctx

\* the error the handler's operation returns to the handler
RunOpErr(c, rq, o) ==
  CASE o.op = "Write" -> WriteErr(c)
    [] o.op = "JSON" -> JSONErr(c, o.code)
    [] o.op = "Printf" -> PrintfErr(c, o.code)
    [] o.op = "File" -> Context_File(c, o.fp, o.script).err
    [] OTHER -> NoErr

ErrorLists == {<<>>, <<ErrorMsg(Str("bad"))>>}

JSONResponses ==
  [type : {"JSONResponse"}, Code : Codes, Success : BOOLEAN, Errors : ErrorLists,
   Data : {Nil, Str("pong")}, Indent : {FALSE}]

JSONPResponses ==
  [type : {"JSONPResponse"}, Code : Codes, Success : BOOLEAN, Errors : ErrorLists,
   Data : {Nil}, Indent : {FALSE}, Callback : {"cb"}]

Responses ==
  JSONResponses \cup JSONPResponses
    \cup {Redirect(u, perm) : u \in {"", "/x"}, perm \in BOOLEAN}
    \cup {RedirectWithCode(u, StatusTemporaryRedirect) : u \in {"", "/x"}}
    \cup [type : {"fileResp"}, ct : {""}, fp : Paths]
    \cup [type : {"simpleResp"}, ct : {""}, v : {Nil, Str("ok")},
          code : {0, StatusOK, StatusNoContent}, ptr : {"new"}]

\* the calls ServeContent makes when r is a file response that gets served
ScriptsFor(r) ==
  IF r.type = "fileResp" /\ FileSystem(r.fp) = "file" THEN ServeScripts ELSE {<<>>}

\* the record of one handler invocation: the handler's operation and return
\* value, the Context before the handler (c0), after the handler returned
\* (c1) and when Serve has dealt with the return value (c2), whether Serve
\* called WriteToCtx and, if so, the response and the error after it
Entry(o, r, c0, c1, w, script) ==
  [h |-> i, op |-> o, operr |-> RunOpErr(c0, req, o), ret |-> r, c0 |-> c0, c1 |-> c1,
   c2 |-> IF w # Nil THEN w.ctx ELSE c1, wtc |-> (w # Nil),
   res |-> IF w # Nil THEN w.r ELSE r,
   err |-> IF w # Nil THEN w.err ELSE NoErr,
   script |-> script]

(************************ handlerChain.Serve *******************************)
\* faulty variant: after a nil the loop does not advance and calls the same
\* handler again
ServeNil_SameHandler ==
  /\ pc = "loop"
  /\ \E o \in HandlerOps :
       LET c1 == RunOp(ctx, req, o)
       IN /\ ctx' = c1
          /\ trace' = Append(trace, Entry(o, NilResp, ctx, c1, Nil, <<>>))
  /\ i' = i
  /\ pc' = IF Len(trace) + 1 >= n THEN "returned" ELSE "loop"
  /\ UNCHANGED <<req, n, arg, out>>

\* case nil: the loop goes on to the next handler, or ends
ServeNil ==
  /\ pc = "loop"
  /\ \E o \in HandlerOps :
       LET c1 == RunOp(ctx, req, o)
       IN /\ ctx' = c1
          /\ trace' = Append(trace, Entry(o, NilResp, ctx, c1, Nil, <<>>))
  /\ i' = i + 1
  /\ pc' = IF i + 1 > n THEN "returned" ELSE "loop"
  /\ UNCHANGED <<req, n, arg, out>>

\* faulty variant: Break is taken for nil and the loop goes on
ServeBreak_GoesOn ==
  /\ pc = "loop"
  /\ \E o \in HandlerOps :
       LET c1 == RunOp(ctx, req, o)
       IN /\ ctx' = c1
          /\ trace' = Append(trace, Entry(o, Break, ctx, c1, Nil, <<>>))
  /\ i' = i + 1
  /\ pc' = IF i + 1 > n THEN "returned" ELSE "loop"
  /\ UNCHANGED <<req, n, arg, out>>

\* case Break: break L
ServeBreak ==
  /\ pc = "loop"
  /\ \E o \in HandlerOps :
       LET c1 == RunOp(ctx, req, o)
       IN /\ ctx' = c1
          /\ trace' = Append(trace, Entry(o, Break, ctx, c1, Nil, <<>>))
  /\ pc' = "returned"
  /\ UNCHANGED <<req, n, i, arg, out>>

\* faulty variant: the response is written whether or not the Context is done
ServeDefault_AlwaysWrites ==
  /\ pc = "loop"
  /\ \E o \in HandlerOps, r \in Responses :
       \E script \in ScriptsFor(r) :
         LET c1 == RunOp(ctx, req, o)
             w == WriteToCtx(r, c1, req, script)
         IN /\ ctx' = w.ctx
            /\ trace' = Append(trace, Entry(o, r, ctx, c1, w, script))
  /\ pc' = "returned"
  /\ UNCHANGED <<req, n, i, arg, out>>

\* default: WriteToCtx unless the Context is done, then break L
ServeDefault ==
  /\ pc = "loop"
  /\ \E o \in HandlerOps, r \in Responses :
       \E script \in ScriptsFor(r) :
         LET c1 == RunOp(ctx, req, o)
             w == IF ~c1.done THEN WriteToCtx(r, c1, req, script) ELSE Nil
         IN /\ ctx' = IF w # Nil THEN w.ctx ELSE c1
            /\ trace' = Append(trace, Entry(o, r, ctx, c1, w, script))
  /\ pc' = "returned"
  /\ UNCHANGED <<req, n, i, arg, out>>

Init ==
  /\ req \in [method : {"GET", "POST"}]
  /\ n \in 1..MaxChain
  /\ i = 1
  /\ pc = "loop"
  /\ ctx = NewContext
  /\ trace = <<>>
  /\ arg = Nil
  /\ out = Nil

Next == ServeNil \/ ServeBreak \/ ServeDefault

Spec == Init /\ [][Next]_vars

(********************** a stream that may fail *****************************)
\* Serve on a connection that is either sound or gone: on the latter every
\* ResponseWriter.Write fails
InitIO ==
  /\ req \in [method : {"GET", "POST"}]
  /\ n \in 1..MaxChain
  /\ i = 1
  /\ pc = "loop"
  /\ ctx \in {[NewContext EXCEPT !.rw.broken = b] : b \in BOOLEAN}
  /\ trace = <<>>
  /\ arg = Nil
  /\ out = Nil

SpecIO == InitIO /\ [][Next]_vars

(************** NewJSONErrorResponse called on its own *********************)
\* most inputs of one call
MaxErrs == 2

\* the values a caller passes as errs: one of each accepted shape, empty and
\* nested MultiErrors, and two values of no accepted shape
ErrValues ==
  LET e1 == [t |-> "*Error",
             v |-> [Message |-> Str("required"), Field |-> "name", IsMissing |-> TRUE]]
      e2 == [t |-> "error", v |-> Str("EOF")]
      m1 == [t |-> "MultiError", errs |-> <<e1, e2>>]
  IN { [t |-> "Error", v |-> ErrorMsg(Str("bad field"))], e1,
       [t |-> "string", v |-> Str("s")], [t |-> "[]byte", v |-> Str("b")],
       [t |-> "*JSONResponse",
        v |-> NewJSONErrorResponse(StatusBadRequest, <<[t |-> "string", v |-> Str("x")],
                                                       [t |-> "string", v |-> Str("y")]>>)],
       [t |-> "*JSONResponse",
        v |-> [type |-> "JSONResponse", Code |-> StatusOK, Success |-> TRUE,
               Errors |-> <<>>, Data |-> Nil, Indent |-> FALSE]],
       e2, [t |-> "MultiError", errs |-> <<>>], m1,
       [t |-> "MultiError", errs |-> <<e2, m1>>],
       [t |-> "int", v |-> Str("7")], [t |-> "nil", v |-> Nil] }

ErrArgs == UNION {[1..k -> ErrValues] : k \in 0..MaxErrs}

InitErr ==
  /\ req = [method |-> "GET"]
  /\ n = 1 /\ i = 1
  /\ pc = "call"
  /\ ctx = NewContext
  /\ trace = <<>>
  /\ arg \in [code : {StatusBadRequest, 404}, errs : ErrArgs]
  /\ out = Nil

\* r := NewJSONErrorResponse(code, errs...)
Construct ==
  /\ pc = "call"
  /\ out' = NewJSONErrorResponse(arg.code, arg.errs)
  /\ pc' = "returned"
  /\ UNCHANGED <<req, n, i, ctx, trace, arg>>

NextErr == Construct

SpecErr == InitErr /\ [][NextErr]_vars

(********************* BindJSON called on its own **************************)
\* longest request body, in tokens
MaxBody == 4

\* the errors of json.Decoder.Decode
ErrEOF == "EOF"
ErrUnexpectedEOF == "unexpected EOF"
ErrSyntax == "invalid character"

\* A request body is a sequence of JSON tokens: a scalar, an opening and a
\* closing bracket (separators left out).
Tokens == {"1", "[", "]"}
Bodies == UNION {[1..k -> Tokens] : k \in 0..MaxBody}

\* The decoder's scan for the end of the JSON value that starts the body:
\* the position of the value's last token, 0 if the body ends inside the
\* value, -1 at a token that cannot be there.
RECURSIVE scan(_, _, _)
scan(ts, p, depth) ==
  IF p > Len(ts) THEN 0
  ELSE CASE ts[p] = "1" -> IF depth = 0 THEN p ELSE scan(ts, p + 1, depth)
         [] ts[p] = "[" -> scan(ts, p + 1, depth + 1)
         [] ts[p] = "]" -> IF depth = 0 THEN -1
                           ELSE IF depth = 1 THEN p
                           ELSE scan(ts, p + 1, depth - 1)

\* json.NewDecoder(ctx).Decode(out): one value is decoded from the front of
\* the body, what follows it is left alone
Decode(ts) ==
  LET e == scan(ts, 1, 0)
  IN IF ts = <<>> THEN [err |-> ErrEOF, val |-> Nil]
     ELSE IF e = -1 THEN [err |-> ErrSyntax, val |-> Nil]
     ELSE IF e = 0 THEN [err |-> ErrUnexpectedEOF, val |-> Nil]
     ELSE [err |-> NoErr, val |-> [kind |-> "decoded", tokens |-> SubSeq(ts, 1, e)]]

\* Context.CloseBody: ctx.Req.Body.Close()
CloseBody(body) == [body EXCEPT !.closed = @ + 1]

\* faulty variant: the body is closed only when the decoding succeeded
BindJSON_LeaksOnError(body) ==
  LET d == Decode(body.data)
  IN [body |-> IF d.err = NoErr THEN CloseBody(body) ELSE body,
      err |-> d.err, val |-> d.val]

\* Context.BindJSON: the body, the returned error and the decoded value
BindJSON(body) ==
  LET d == Decode(body.data)
  IN [body |-> CloseBody(body), err |-> d.err, val |-> d.val]

InitBind ==
  /\ req = [method |-> "POST"]
  /\ n = 1 /\ i = 1
  /\ pc = "call"
  /\ ctx = NewContext
  /\ trace = <<>>
  /\ arg \in [data : Bodies, closed : {0}]
  /\ out = Nil

\* err := ctx.BindJSON(&v) on a request whose body is arg
Bind ==
  /\ pc = "call"
  /\ out' = BindJSON(arg)
  /\ pc' = "returned"
  /\ UNCHANGED <<req, n, i, ctx, trace, arg>>

NextBind == Bind

SpecBind == InitBind /\ [][NextBind]_vars

(******************************* claims ************************************)
\* what an entry's step forwarded to the stream between two Contexts
HdrsBetween(a, b) == SubSeq(b.rw.hdr, Len(a.rw.hdr) + 1, Len(b.rw.hdr))
BodiesBetween(a, b) == SubSeq(b.rw.body, Len(a.rw.body) + 1, Len(b.rw.body))
IsResponse(r) == r # NilResp /\ r # Break

\* C1: when handlers 1..i-1 return nothing and handler i returns Break, no
\* later handler is invoked, Serve calls WriteToCtx on no response of the
\* request, and Serve itself forwards no header and no body to the stream.
C1_Break ==
  \A k \in DOMAIN trace :
    trace[k].ret = Break =>
      /\ \A j \in 1..(k - 1) : trace[j].ret = NilResp
      /\ k = Len(trace) /\ pc = "returned"
      /\ \A j \in DOMAIN trace : ~trace[j].wtc /\ trace[j].c2 = trace[j].c1
      /\ ctx = trace[k].c1
      /\ (\A j \in DOMAIN trace : trace[j].op.op = "none")
            => ctx.rw.hdr = <<>> /\ ctx.rw.body = <<>>

\* C1 witness: the chain [h1 -> Break, h2] has returned after h1 alone
C1_Witness ==
  /\ n = 2 /\ pc = "returned" /\ Len(trace) = 1
  /\ trace[1].ret = Break /\ trace[1].op.op = "none"

\* C2 (first half, and the amended second half): a handler returning a
\* response that is neither nil nor Break ends the chain; Serve calls
\* WriteToCtx on it exactly once if the Context is not done at that moment and
\* not at all if it is done, and in the latter case Serve forwards nothing.
\* So a handler whose own output marked the Context done causes no second
\* write.
C2_ResponseStopsChain ==
  \A k \in DOMAIN trace :
    IsResponse(trace[k].ret) =>
      /\ k = Len(trace) /\ pc = "returned"
      /\ trace[k].wtc = ~trace[k].c1.done
      /\ trace[k].c1.done => trace[k].c2 = trace[k].c1 /\ ctx = trace[k].c1
      /\ ~trace[k].c1.done =>
           trace[k].c2 = WriteToCtx(trace[k].ret, trace[k].c1, req, trace[k].script).ctx

\* C2 witness: a handler wrote a body itself (JSON), returned a response,
\* and Serve skipped WriteToCtx
C2_Witness ==
  \E k \in DOMAIN trace :
    /\ IsResponse(trace[k].ret) /\ trace[k].op.op = "JSON"
    /\ ~trace[k].wtc /\ Len(ctx.rw.body) = 1

\* C2 as stated: whenever a handler wrote output itself (forwarded a header
\* or a body) and also returned a response, nothing is written a second time.
C2_NoSecondWrite ==
  \A k \in DOMAIN trace :
    (IsResponse(trace[k].ret) /\ trace[k].c1.rw # trace[k].c0.rw)
      => trace[k].c2.rw = trace[k].c1.rw

\* C3 as stated: whatever single output operation each handler performs
\* before returning, at most one header status and at most one body reach
\* the stream.
C3_AtMostOneResponse ==
  Len(ctx.rw.hdr) <= 1 /\ Len(ctx.rw.body) <= 1

\* every handler performed its output operation only while Done() was false
ConsultDone == \A k \in DOMAIN trace : trace[k].c0.done => trace[k].op.op = "none"
\* some handler left a header on the stream without marking the Context done
HeaderWithoutDone ==
  \E k \in DOMAIN trace :
    Len(trace[k].c1.rw.hdr) > Len(trace[k].c0.rw.hdr) /\ ~trace[k].c1.done

\* C3 amended: when every handler performs its output operation only while
\* Done() is false, at most one body reaches the stream; and at most one
\* header status too unless a handler's operation forwarded a header without
\* marking the Context done (WriteHeader, a Redirect or File without body).
C3_AtMostOneWhenDoneConsulted ==
  ConsultDone =>
    /\ Len(ctx.rw.body) <= 1
    /\ ~HeaderWithoutDone => Len(ctx.rw.hdr) <= 1

\* C3 witness: the first handler wrote a JSON body and returned nothing, the
\* second wrote nothing and returned a response, and one header and one
\* body are on the stream
C3_Witness ==
  /\ pc = "returned" /\ Len(trace) = 2 /\ ConsultDone
  /\ trace[1].op.op = "JSON" /\ trace[2].op.op = "none" /\ IsResponse(trace[2].ret)
  /\ Len(ctx.rw.hdr) = 1 /\ Len(ctx.rw.body) = 1

\* the file serves of the trace: the Context before and after Context.File
\* and the calls ServeContent made
FileServes ==
  { [before |-> trace[k].c0, after |-> trace[k].c1, script |-> trace[k].op.script] :
      k \in {j \in DOMAIN trace : trace[j].op.op = "File" /\ FileSystem(trace[j].op.fp) = "file"} }
  \cup
  { [before |-> trace[k].c1, after |-> trace[k].c2, script |-> trace[k].script] :
      k \in {j \in DOMAIN trace : /\ trace[j].wtc /\ trace[j].ret.type = "fileResp"
                                   /\ FileSystem(trace[j].ret.fp) = "file"} }

IsHijackedError(sc) ==
  Len(sc) = 2 /\ sc[1].call = "WriteHeader" /\ sc[1].s >= 300 /\ sc[2].call = "Write"

\* C4: while hijackServeContent is set by Context.File, WriteHeader(s) with
\* s >= 300 followed by Write(p) forwards neither the header nor p as they
\* come: exactly one header with status s and one JSON body with code s,
\* success false and the single error with message p reach the stream, and
\* hijackServeContent is false afterwards.
C4_Hijack ==
  \A f \in FileServes :
    IsHijackedError(f.script) =>
      LET s == f.script[1].s
          p == f.script[2].p
          bodies == BodiesBetween(f.before, f.after)
      IN /\ HdrsBetween(f.before, f.after) = <<s>>
         /\ Len(bodies) = 1
         /\ bodies[1] # p
         /\ bodies[1].kind = "json"
         /\ bodies[1].obj = ("code" :> s) @@ ("success" :> FALSE)
                              @@ ("errors" :> <<[Message |-> p, Field |-> "", IsMissing |-> FALSE]>>)
         /\ ~f.after.hijackServeContent
         /\ f.after.status = s

\* C4 witness: a file response was served, ServeContent reported 416 with a
\* plain text body, and the chain has returned
C4_Witness ==
  /\ pc = "returned"
  /\ \E k \in DOMAIN trace :
       /\ trace[k].wtc /\ trace[k].ret.type = "fileResp"
       /\ trace[k].script = <<H(416), W(Str("invalid range"))>>
       /\ ctx.rw.hdr = <<416>>

\* whether serving the file response of entry e failed
FileFailed(e) ==
  \/ e.err # NoErr
  \/ \E j \in DOMAIN e.script : e.script[j].call = "WriteHeader" /\ e.script[j].s >= 300

\* C5: whenever a handler returns a File response and serving fails (open
\* error, directory, or a status >= 300), exactly one header and one JSON
\* error body have reached the client when the chain returns.
C5_FileFailureIsJSON ==
  \A k \in DOMAIN trace :
    (pc = "returned" /\ trace[k].ret.type = "fileResp" /\ trace[k].wtc /\ FileFailed(trace[k]))
      => /\ Len(HdrsBetween(trace[k].c1, ctx)) = 1
         /\ Len(BodiesBetween(trace[k].c1, ctx)) = 1
         /\ BodiesBetween(trace[k].c1, ctx)[1].kind = "json"

\* the Contexts the request went through, in order
Contexts ==
  {ctx} \cup {trace[k].c0 : k \in DOMAIN trace} \cup {trace[k].c1 : k \in DOMAIN trace}
        \cup {trace[k].c2 : k \in DOMAIN trace}

\* C6 as stated: in every state of the Context, a header or a body byte on
\* the stream implies Done().
C6_DoneTracksOutput ==
  \A c \in Contexts : (c.rw.hdr # <<>> \/ c.rw.body # <<>>) => c.done

\* C6 amended: a body byte on the stream implies Done() (a header alone does
\* not: WriteHeader forwards it and leaves done as it is), and done, once
\* true, stays true: through each handler, through WriteToCtx, and from one
\* step of Serve to the next.
C6_DoneTracksBody ==
  /\ [](\A c \in Contexts : c.rw.body # <<>> => c.done)
  /\ [](\A k \in DOMAIN trace :
          /\ trace[k].c0.done => trace[k].c1.done
          /\ trace[k].c1.done => trace[k].c2.done)
  /\ [][ctx.done => ctx'.done]_vars

\* C6 witness: a handler's Write put a body on the stream and marked the
\* Context done, and the next handler ran on the done Context
C6_Witness ==
  /\ Len(trace) = 2 /\ trace[1].op.op = "Write"
  /\ trace[1].c1.rw.body # <<>> /\ trace[1].c1.done /\ ctx.done

IsStructured(r) == r.type \in {"JSONResponse", "JSONPResponse"}
InSuccessRange(code) == code >= 200 /\ code < 300

\* C7: after WriteToCtx on a structured or callback-wrapped response, for
\* every initial Code (0 and 204 included) and every initial Success,
\* Success is true exactly when the final Code is in [200, 300).
C7_SuccessDerived ==
  \A k \in DOMAIN trace :
    (trace[k].wtc /\ IsStructured(trace[k].ret))
      => trace[k].res.Success = InSuccessRange(trace[k].res.Code)

\* C8 as stated: whatever the logical Code of a callback-wrapped response
\* (0, 204, 4xx, ...), the header status WriteToCtx sends is 200.
C8_TransportAlways200 ==
  \A k \in DOMAIN trace :
    (trace[k].wtc /\ trace[k].ret.type = "JSONPResponse")
      => /\ HdrsBetween(trace[k].c1, trace[k].c2) = <<200>>
         /\ trace[k].c2.status = 200

\* C8 amended: for every logical Code other than 204 the header status
\* WriteToCtx sends for a callback-wrapped response is 200; with Code 204 it
\* sends the header 204 and no body.
C8_Transport200Except204 ==
  \A k \in DOMAIN trace :
    (trace[k].wtc /\ trace[k].ret.type = "JSONPResponse")
      => IF trace[k].ret.Code = 204
         THEN /\ HdrsBetween(trace[k].c1, trace[k].c2) = <<204>>
              /\ BodiesBetween(trace[k].c1, trace[k].c2) = <<>>
              /\ trace[k].c2.status = 204
         ELSE /\ HdrsBetween(trace[k].c1, trace[k].c2) = <<200>>
              /\ trace[k].c2.status = 200

\* C8 witness: a callback-wrapped response with logical code 404 was written
\* with header status 200
C8_Witness ==
  \E k \in DOMAIN trace :
    /\ trace[k].wtc /\ trace[k].ret.type = "JSONPResponse" /\ trace[k].ret.Code = 404
    /\ trace[k].c0.rw.hdr = <<>> /\ ctx.rw.hdr = <<200>>

\* C9: WriteToCtx on a structured response with Code 0 sets Code to 400 and
\* sends header status 400 when the error list is non-empty, and sets Code to
\* 200 and sends header status 200 when it is empty; a non-zero Code other
\* than 204 is kept and sent as it is.
C9_DefaultCode ==
  \A k \in DOMAIN trace :
    (trace[k].wtc /\ trace[k].ret.type = "JSONResponse" /\ trace[k].ret.Code # 204)
      => LET want == IF trace[k].ret.Code # 0 THEN trace[k].ret.Code
                     ELSE IF trace[k].ret.Errors # <<>> THEN 400 ELSE 200
         IN /\ trace[k].res.Code = want
            /\ HdrsBetween(trace[k].c1, trace[k].c2) = <<want>>
            /\ trace[k].c2.status = want

\* C9 witness: a structured response with Code 0 and an error was written
\* with header status 400
C9_Witness ==
  \E k \in DOMAIN trace :
    /\ trace[k].wtc /\ trace[k].ret.type = "JSONResponse"
    /\ trace[k].ret.Code = 0 /\ trace[k].ret.Errors # <<>>
    /\ trace[k].res.Code = 400 /\ ctx.rw.hdr = <<400>>

\* C10: WriteToCtx on a callback-wrapped response with Code 0 makes the
\* logical code of the payload 400 and Success false when the error list is
\* non-empty, and 200 and Success true when it is empty.
C10_JSONPDefaultCode ==
  \A k \in DOMAIN trace :
    (trace[k].wtc /\ trace[k].ret.type = "JSONPResponse" /\ trace[k].ret.Code = 0)
      => LET want == IF trace[k].ret.Errors # <<>> THEN 400 ELSE 200
             bodies == BodiesBetween(trace[k].c1, trace[k].c2)
         IN /\ trace[k].res.Code = want
            /\ trace[k].res.Success = InSuccessRange(want)
            /\ Len(bodies) = 1
            /\ bodies[1].obj.code = want
            /\ bodies[1].obj.success = InSuccessRange(want)

\* a response whose own status is 204
Is204(r) ==
  \/ IsStructured(r) /\ r.Code = StatusNoContent
  \/ r.type = "simpleResp" /\ r.code = StatusNoContent

\* C11 (as stated): every response written with status 204, whatever its
\* payload or error list, forwards the 204 header only and no body.
C11_NoBodyOn204 ==
  \A k \in DOMAIN trace :
    (trace[k].wtc /\ Is204(trace[k].ret)) =>
      /\ HdrsBetween(trace[k].c1, trace[k].c2) = <<StatusNoContent>>
      /\ BodiesBetween(trace[k].c1, trace[k].c2) = <<>>

\* C11 (amended): a structured response (plain or callback-wrapped) with
\* Code 204, whatever its data and error list, and a generic response with
\* code 204 and no payload, forward the 204 header alone; a generic response
\* with code 204 and a payload forwards the 204 header and then that payload.
C11_NoBodyOn204Structured ==
  \A k \in DOMAIN trace :
    (trace[k].wtc /\ Is204(trace[k].ret)) =>
      /\ HdrsBetween(trace[k].c1, trace[k].c2) = <<StatusNoContent>>
      /\ (IsStructured(trace[k].ret) \/ trace[k].ret.v = Nil)
           => /\ BodiesBetween(trace[k].c1, trace[k].c2) = <<>>
              /\ trace[k].c2.done = trace[k].c1.done
      /\ (trace[k].ret.type = "simpleResp" /\ trace[k].ret.v # Nil)
           => BodiesBetween(trace[k].c1, trace[k].c2) = <<trace[k].ret.v>>

\* C11 witness: a structured response with Code 204, data and errors was
\* written
C11_Witness ==
  \E k \in DOMAIN trace :
    /\ trace[k].wtc /\ trace[k].ret.type = "JSONResponse"
    /\ trace[k].ret.Code = StatusNoContent
    /\ trace[k].ret.Data # Nil /\ trace[k].ret.Errors # <<>>
    /\ HdrsBetween(trace[k].c1, trace[k].c2) = <<StatusNoContent>>

\* the error list the claim assigns to one input of error-response
\* construction
RECURSIVE Expansion(_)
Expansion(err) ==
  CASE err.t \in {"Error", "*Error"} -> <<err.v>>
    [] err.t \in {"string", "[]byte", "error"} -> <<ErrorMsg(err.v)>>
    [] err.t = "*JSONResponse" -> err.v.Errors
    [] err.t = "MultiError" ->
         IF err.errs = <<>> THEN <<>>
         ELSE Expansion(Head(err.errs))
                \o Expansion([t |-> "MultiError", errs |-> Tail(err.errs)])
    [] OTHER -> <<>>

RECURSIVE Expansions(_)
Expansions(errs) ==
  IF errs = <<>> THEN <<>> ELSE Expansion(Head(errs)) \o Expansions(Tail(errs))

\* inputs of the shapes the construction accepts, at every depth
RECURSIVE Accepted(_)
Accepted(err) ==
  /\ err.t \in AcceptedTypes
  /\ err.t = "MultiError" => \A k \in DOMAIN err.errs : Accepted(err.errs[k])

\* C12: the error list of a constructed error response is the in-order
\* concatenation of its inputs' expansions (one error for a string, bytes, a
\* structured error or a generic error; the error list of another structured
\* response; recursively the elements' expansions for a MultiError); with no
\* inputs it is the one error whose message is the status text of the code.
C12_InOrderSplice ==
  (pc = "returned" /\ out # Nil /\ \A k \in DOMAIN arg.errs : Accepted(arg.errs[k])) =>
    /\ out # Panic
    /\ out.Code = arg.code
    /\ out.Errors = IF arg.errs = <<>> THEN <<ErrorMsg(StatusText(arg.code))>>
                    ELSE Expansions(arg.errs)

\* the failed stream writes between two Contexts
FailedBetween(a, b) == b.rw.failed - a.rw.failed

\* C13: whenever a write to the underlying stream fails during Context.Write
\* (hijacked or not) or during a response's WriteToCtx, the failure is
\* returned to the caller of that operation, and the write is not attempted
\* a second time.
C13_TransportErrorsPropagated ==
  \A k \in DOMAIN trace :
    /\ (trace[k].op.op = "Write" /\ FailedBetween(trace[k].c0, trace[k].c1) > 0)
         => trace[k].operr = ErrWrite /\ FailedBetween(trace[k].c0, trace[k].c1) = 1
    /\ (trace[k].wtc /\ FailedBetween(trace[k].c1, trace[k].c2) > 0)
         => trace[k].err = ErrWrite /\ FailedBetween(trace[k].c1, trace[k].c2) = 1

\* C14: the handlers of a chain are invoked in chain order, handler k only if
\* handlers 1..k-1 all returned nil, each at most once per request; every
\* handler gets the one Context of the request, in the state its predecessor
\* left it in; and Serve makes at most len(chain) invocations.
C14_ChainOrder ==
  /\ Len(trace) <= n
  /\ pc = "loop" => i = Len(trace) + 1 /\ i <= n
  /\ \A k \in DOMAIN trace :
       /\ trace[k].h = k
       /\ \A j \in 1..(k - 1) : trace[j].ret = NilResp
       /\ trace[k].c0 = IF k = 1 THEN NewContext ELSE trace[k - 1].c2
  /\ ctx = IF trace = <<>> THEN NewContext ELSE trace[Len(trace)].c2

\* C14 witness: a chain of two whose first handler returned nil and whose
\* second handler was invoked, after which Serve returned
C14_Witness ==
  /\ n = 2 /\ pc = "returned" /\ Len(trace) = 2
  /\ trace[1].ret = NilResp /\ trace[1].h = 1 /\ trace[2].h = 2
  /\ trace[2].c0 = trace[1].c2

\* C15: a redirect response with an empty URL returns the invalid-URL error
\* from WriteToCtx and leaves the Context as it was; with a non-empty URL it
\* issues exactly one redirect carrying the response's status code (302 from
\* Redirect, 301 from a permanent Redirect, the given code from
\* RedirectWithCode) and returns no error.
C15_Redirect ==
  /\ \A u \in {"", "/x"} :
       /\ Redirect(u, FALSE).code = StatusFound
       /\ Redirect(u, TRUE).code = StatusMovedPermanently
       /\ RedirectWithCode(u, StatusTemporaryRedirect).code = StatusTemporaryRedirect
  /\ \A k \in DOMAIN trace :
       (trace[k].wtc /\ trace[k].ret.type = "redirResp") =>
         IF trace[k].ret.url = ""
         THEN trace[k].err = ErrInvalidURL /\ trace[k].c2 = trace[k].c1
         ELSE /\ trace[k].err = NoErr
              /\ HdrsBetween(trace[k].c1, trace[k].c2) = <<trace[k].ret.code>>

\* C16: Context.File on a path that opens but is a directory returns ErrDir
\* (not the open error), forwards nothing and leaves hijackServeContent,
\* status and done as they were; on a path that cannot be opened it returns
\* the open error, with the Context unchanged as well.  The same holds when
\* the call is made by a file response's WriteToCtx.
C16_FileOnDirectory ==
  /\ ErrDir # ErrOpen
  /\ \A k \in DOMAIN trace :
       /\ (trace[k].op.op = "File" /\ FileSystem(trace[k].op.fp) # "file") =>
            /\ trace[k].operr =
                 IF FileSystem(trace[k].op.fp) = "dir" THEN ErrDir ELSE ErrOpen
            /\ trace[k].c1 = trace[k].c0
       /\ (trace[k].wtc /\ trace[k].ret.type = "fileResp"
             /\ FileSystem(trace[k].ret.fp) # "file") =>
            /\ trace[k].err =
                 IF FileSystem(trace[k].ret.fp) = "dir" THEN ErrDir ELSE ErrOpen
            /\ trace[k].c2 = trace[k].c1

\* C16 witness: a handler called File on a directory and got ErrDir, and
\* another call of File, on a missing path, got the open error
C16_Witness ==
  /\ \E k \in DOMAIN trace :
       /\ trace[k].op.op = "File" /\ trace[k].op.fp = "/dir"
       /\ trace[k].operr = ErrDir /\ ~trace[k].c1.hijackServeContent
  /\ \E k \in DOMAIN trace :
       /\ trace[k].wtc /\ trace[k].ret.type = "fileResp" /\ trace[k].ret.fp = "/missing"
       /\ trace[k].err = ErrOpen

RECURSIVE Balanced(_, _)
Balanced(ts, depth) ==
  IF ts = <<>> THEN depth = 0
  ELSE CASE Head(ts) = "1" -> Balanced(Tail(ts), depth)
         [] Head(ts) = "[" -> Balanced(Tail(ts), depth + 1)
         [] Head(ts) = "]" -> depth > 0 /\ Balanced(Tail(ts), depth - 1)

HasValue(ts) ==
  \E e \in 1..Len(ts) :
    /\ Balanced(SubSeq(ts, 1, e), 0)
    /\ ts[1] = "1" => e = 1

\* C18: after every BindJSON call, whether the decoding succeeded or failed
\* (an empty, a truncated or a malformed body), the request body has been
\* closed exactly once, and BindJSON returns the decoder's error: nil exactly
\* when the body starts with a complete JSON value.
C18_BindJSONCloses ==
  (pc = "returned") =>
    /\ out.body.closed = 1
    /\ out.body.data = arg.data
    /\ out.err = Decode(arg.data).err
    /\ (out.err = NoErr) <=> HasValue(arg.data)

\* C18 witness: BindJSON has returned a decode error for a malformed body,
\* and the body is closed
C18_Witness ==
  /\ pc = "returned" /\ arg.data = <<"]", "1">>
  /\ out.err = ErrSyntax /\ out.body.closed = 1

\* C19: whenever a WriteHeader(s) with s >= 300 is swallowed because the
\* hijack is on, a header with status s has been forwarded to the stream by
\* the time Context.File returns, whatever calls the file-serving routine
\* makes afterwards, no body write at all included (304 Not Modified).
C19_NoStatusSwallowed ==
  \A f \in FileServes :
    \A k \in DOMAIN f.script :
      (f.script[k].call = "WriteHeader" /\ f.script[k].s >= HijackMinStatus) =>
        \E j \in DOMAIN HdrsBetween(f.before, f.after) :
          HdrsBetween(f.before, f.after)[j] = f.script[k].s

\* C20: hijackServeContent is set only while a Context.File call is in
\* progress: it is false whenever a handler is entered, has returned, or
\* Serve has dealt with its return value, so that a WriteHeader or Write a
\* handler makes is forwarded as it comes.
C20_HijackConfined ==
  /\ \A c \in Contexts : ~c.hijackServeContent
  /\ \A k \in DOMAIN trace :
       /\ trace[k].op.op = "WriteHeader" =>
            HdrsBetween(trace[k].c0, trace[k].c1) = <<trace[k].op.s>>
       /\ trace[k].op.op = "Write" =>
            BodiesBetween(trace[k].c0, trace[k].c1) = <<trace[k].op.p>>

====
